---------------------------- MODULE Spec2Model ----------------------------
(***************************************************************************)
(* A model of bliss-initramfs (pkg/libs/Core.py, pkg/libs/Tools.py,        *)
(* pkg/hooks/Hook.py, pkg/libs/Variables.py).                              *)
(*                                                                         *)
(* Representation.                                                         *)
(*  - A Python string that the program splits at "," is a non-empty        *)
(*    sequence of tokens (the pieces between the commas); the empty        *)
(*    string "" is the one-token sequence <<"">>, which is what            *)
(*    "".split(",") yields.  None is the empty sequence.                   *)
(*  - A path is the sequence of its components: "/bin/busybox" is          *)
(*    <<"bin", "busybox">>; dirname drops the last component and the       *)
(*    concatenation a + "/" + b is sequence concatenation.  A path under   *)
(*    the build root var.temp is written relative to it, so <<>> is        *)
(*    var.temp itself.                                                     *)
(*  - A file system maps every path to "none", "dir" or, for a regular     *)
(*    file, what the file holds.                                           *)
(*  - quit(n) sets exit_code to n; exit_code = -1 while the process runs.  *)
(*    exc names an exception that nothing has caught yet.                  *)
(*  - log is the trace of the program's external operations and messages;  *)
(*    a run of consecutive operations of one kind is one entry that holds  *)
(*    the set of their arguments (Python set iteration has no order).      *)
(***************************************************************************)
EXTENDS Integers, Sequences, FiniteSets, TLC

VARIABLES
    user,           \* Tools.Run("whoami")[0]
    args_features,  \* args.features as argparse returns it (None or a string)
    answer,         \* what the user typed at "Features [1]: " (None: no prompt)
    settings,       \* the content of settings.json
    host,           \* the file system of the running system
    lddout,         \* per binary, the lines the ldd pipeline prints
    kmods,          \* the kernel's module tree and what depmod/modprobe answer
    pc,             \* the driver's position
    features,       \* var.features
    use,            \* Hook._use of every hook class
    files,          \* Hook._files of every hook class
    root,           \* the file system under var.temp
    binset,         \* Core._binset
    bindeps,        \* bindeps of the last Core.CopyDependencies
    modset,         \* Core._modset
    moddeps,        \* moddeps of the last Core.CopyModules
    log,            \* trace of operations and messages
    exc,            \* uncaught exception, "none" when there is none
    exit_code,      \* the process's exit status, -1 while it runs
    call,           \* the last call of Tools.Copy or Tools.SafeCopy made on its own
    initrd,         \* what is at var.home + "/" + var.initrd
    rstring,        \* var.rstring, the random number the process drew for var.temp
    home,           \* per number r, the tree at var.home + "/bi-" + r, var.temp aside
    runs            \* how many processes were started in var.home so far

env == <<user, args_features, settings, host, lddout, kmods, rstring, home, runs>>

vars == <<user, args_features, answer, settings, host, lddout, kmods, pc, features,
          use, files, root, binset, bindeps, modset, moddeps, log, exc, exit_code,
          call, initrd, rstring, home, runs>>

----------------------------------------------------------------------------
(* Bounds *)

\* The longest comma separated input (number of tokens).
MaxLen == 3

\* The most lines the ldd pipeline prints for one binary.
MaxLdd == 2

\* The most calls of Tools.Copy and Tools.SafeCopy made one after the other.
MaxCalls == 3

\* The most processes started one after the other in the same directory.
MaxRuns == 2

----------------------------------------------------------------------------
(* Strings, tokens *)

None == <<>>

EmptyString == <<"">>

\* `if s:` on a str-or-None value.
Truthy(s) == s # None /\ s # EmptyString

FeatureNames == {"zfs", "luks", "basic", "exit"}

\* The pieces a user may put between the commas.
Tokens == {"zfs", "luks", "basic", "exit", "bogus", "", "0", "1", "2", "3", "4"}

RawStrings == UNION {[1..n -> Tokens] : n \in 1..MaxLen}

Hooks == {"Base", "Modules", "Zfs", "Luks", "Firmware"}

\* Tools._features
Tools_features == [n \in {1, 2, 3} |-> CASE n = 1 -> "ZFS" [] n = 2 -> "LUKS" [] n = 3 -> "Basic"]

\* str.lower() on the values of Tools._features
lower(s) ==
    CASE s = "ZFS" -> "zfs"
      [] s = "LUKS" -> "luks"
      [] s = "Basic" -> "basic"
      [] OTHER -> s

\* int(s): [ok |-> FALSE] stands for ValueError
int(s) ==
    CASE s = "0" -> [ok |-> TRUE, val |-> 0]
      [] s = "1" -> [ok |-> TRUE, val |-> 1]
      [] s = "2" -> [ok |-> TRUE, val |-> 2]
      [] s = "3" -> [ok |-> TRUE, val |-> 3]
      [] s = "4" -> [ok |-> TRUE, val |-> 4]
      [] OTHER -> [ok |-> FALSE, val |-> 0]

----------------------------------------------------------------------------
(* Paths and file systems *)

dirname(path) == IF path = <<>> THEN <<>> ELSE SubSeq(path, 1, Len(path) - 1)

\* The path and the directories above it, var.temp (<<>>) included.
Prefixes(path) == {SubSeq(path, 1, k) : k \in 0..Len(path)}

busybox    == <<"bin", "busybox">>
bash       == <<"bin", "bash">>
cryptsetup == <<"sbin", "cryptsetup">>
zfs        == <<"sbin", "zfs">>
zed        == <<"usr", "lib", "zfs", "zed">>
libc       == <<"lib64", "libc.so.6">>
libz       == <<"usr", "lib64", "libz.so.1">>

\* var.lib64 + "/ld-linux-x86-64.so*" and var.lib + "/ld-musl-x86_64.so*"
\* (Core.CopyDependencies): the file each pattern matches where it matches one.
ld_linux == <<"lib64", "ld-linux-x86-64.so.2">>
ld_musl  == <<"lib", "ld-musl-x86_64.so.1">>

\* var.baselayout, relative to var.temp
baselayout ==
    << <<"etc">>, <<"etc", "bash">>, <<"etc", "zfs">>, <<"dev">>, <<"proc">>,
       <<"sys">>, <<"mnt">>, <<"mnt", "root">>, <<"mnt", "key">>, <<"lib">>,
       <<"lib", "modules">>, <<"lib64">>, <<"bin">>, <<"sbin">>, <<"usr">>,
       <<"root">>, <<"run">> >>

zfs_8      == <<"usr", "share", "man", "man8", "zfs.8">>

\* var.modules = var.modulesDirectory + "/" + var.kernel + "/"
var_modules == <<"lib", "modules", "k">>

nvme_ko        == var_modules \o <<"nvme.ko">>
nvme_core_ko   == var_modules \o <<"nvme-core.ko">>
zfs_ko         == var_modules \o <<"zfs.ko">>
modules_order   == var_modules \o <<"modules.order">>
modules_builtin == var_modules \o <<"modules.builtin">>

ModuleNames == {"nvme", "zfs"}

ModuleFiles == {nvme_ko, nvme_core_ko, zfs_ko}

HostFiles ==
    {busybox, bash, cryptsetup, zfs, zed, zfs_8, libc, libz, ld_linux, ld_musl,
     modules_order, modules_builtin} \cup ModuleFiles

\* var.firmwareDirectory
firmwareDirectory == <<"lib", "firmware">>

\* Firmware files and directories as settings.json names them (relative to
\* var.firmwareDirectory)
fw_a == <<"a.bin">>
fw_b == <<"b.bin">>
fw_d == <<"d">>
fw_e == <<"e">>

FirmwareFiles ==
    {firmwareDirectory \o fw_a, firmwareDirectory \o fw_b,
     firmwareDirectory \o fw_d \o <<"x.bin">>, firmwareDirectory \o fw_e \o <<"y.bin">>}

\* Luks.GetKeyfilePath()
keyfile_path == <<"root", "keyfile">>

\* var.files_dir + "/init": the init script that comes with the program
files_init == <<"files", "init">>

\* Luks.GetDetachedHeaderPath()
header_path == <<"root", "header">>

\* Base.GetUdevPath() and var.sbin + "/udevd"
udev_path  == <<"lib", "systemd", "systemd-udevd">>
sbin_udevd == <<"sbin", "udevd">>

\* kmod, which the links of Base.GetKmodLinks() point to
kmod == <<"sbin", "kmod">>

\* var.udevConfigDirectory, var.udevLibDirectory, var.modprobeDirectory
udevConfigDirectory == <<"etc", "udev">>
udevLibDirectory    == <<"lib", "udev">>
modprobeDirectory   == <<"etc", "modprobe.d">>

\* The directory `gcc-config -L | cut -d ':' -f 1` prints, and the library in it
gcc_lib == <<"usr", "lib", "gcc">>
libgcc  == gcc_lib \o <<"libgcc_s.so.1">>

\* Files of the host besides HostFiles
OtherFiles ==
    FirmwareFiles \cup
    {keyfile_path, header_path, files_init, udev_path, kmod, libgcc,
     udevConfigDirectory \o <<"udev.conf">>, udevLibDirectory \o <<"ata_id">>,
     modprobeDirectory \o <<"zfs.conf">>}

\* Paths that exist under var.temp only
RootOnlyFiles ==
    {<<"etc", "keyfile">>, <<"etc", "header">>, <<"init">>, <<"etc", "mtab">>, <<"etc", "keymap">>,
     <<"version.bliss">>, <<"modules.bliss">>, sbin_udevd,
     <<"bin", "sh">>, <<"bin", "modprobe">>, <<"sbin", "modprobe">>,
     <<"lib64", "libz.so.1">>, <<"lib64", "libgcc_s.so.1">>, <<"lib64", "libgcc_s.so">>,
     <<"libgcc_s.so.1">>}

Libraries == {libc, libz}

Paths ==
    UNION {Prefixes(f) : f \in HostFiles \cup OtherFiles \cup RootOnlyFiles}
        \cup UNION {Prefixes(baselayout[k]) : k \in 1..Len(baselayout)}

\* What a regular file may hold, as `file -L` tells them apart.
FileKinds == {"dynamic", "static", "script", "data"}

\* A symbolic link (to a file that is there)
Link == "link"

EmptyFs == [path \in Paths |-> "none"]

\* random.randint(100000000, 999999999): the numbers var.rstring may be
RStrings == 1..MaxRuns

\* The first process started in var.home: no build root of an earlier one is there.
FirstRun ==
    /\ rstring = 1
    /\ home = [r \in RStrings |-> EmptyFs]
    /\ runs = 1

exists(fs, path) == path \in Paths /\ fs[path] # "none"

isdir(fs, path) == path \in Paths /\ fs[path] = "dir"

isfile(fs, path) == path \in Paths /\ fs[path] \notin {"none", "dir"}

\* The host that holds the files `kinds` names (a function from HostFiles to
\* FileKinds or "none") and the directories above them.
HostWith(kinds) ==
    [path \in Paths |->
        IF path \in DOMAIN kinds THEN kinds[path]
        ELSE IF \E f \in DOMAIN kinds : kinds[f] # "none" /\ path \in Prefixes(f) THEN "dir"
        ELSE "none"]

----------------------------------------------------------------------------
(* The process: operators below take the process state as a record           *)
(* [features, use, files, root, binset, bindeps, modset, moddeps, log, exc,  *)
(* exit_code] and return the state after the call.                           *)

Cur ==
    [features |-> features, use |-> use, files |-> files, root |-> root,
     binset |-> binset, bindeps |-> bindeps, modset |-> modset,
     moddeps |-> moddeps, log |-> log, exc |-> exc, exit_code |-> exit_code]

\* The call returned: the process neither quit nor is unwinding an exception.
Live(p) == p.exit_code = -1 /\ p.exc = "none"

\* An entry of the trace: a run of `op` over the arguments `arg`.
Note(p, op, arg) ==
    IF p.log # <<>> /\ p.log[Len(p.log)].op = op
    THEN [p EXCEPT !.log[Len(p.log)].args = @ \cup {arg}]
    ELSE [p EXCEPT !.log = Append(@, [op |-> op, args |-> {arg}])]

quit(p, code) == [p EXCEPT !.exit_code = code]

raise(p, exception) == [p EXCEPT !.exc = exception]

\* Tools.Warn
Warn(p, vMessage) == Note(p, "Warn", vMessage)

CleanKeepsTemp(p) == p

\* Tools.Clean: shutil.rmtree(var.temp) when it exists
Clean(p) == IF exists(p.root, <<>>) THEN [p EXCEPT !.root = EmptyFs] ELSE p

\* Tools.Fail
Fail(p, vMessage) == quit(Clean(Note(p, "Fail", vMessage)), 1)

\* os.makedirs(path): the directory and every missing directory above it
makedirs(p, path) ==
    IF \E a \in Prefixes(path) : isfile(p.root, a) \/ a \notin Paths
    THEN raise(p, "FileExistsError")
    ELSE [p EXCEPT !.root = [q \in Paths |-> IF q \in Prefixes(path) THEN "dir" ELSE @[q]]]

\* shutil.copy(src, dst): src is a path of the host, dst a path under var.temp.
\* A dst that is a directory receives the file under the source's name.
shutil_copy(p, src, dst) ==
    IF isdir(host, src) THEN raise(p, "IsADirectoryError")
    ELSE IF ~isfile(host, src) THEN raise(p, "FileNotFoundError")
    ELSE IF isdir(p.root, dst)
         THEN LET into == dst \o <<src[Len(src)]>> IN
              IF into \notin Paths THEN p
              ELSE IF isdir(p.root, into) THEN raise(p, "IsADirectoryError")
              ELSE [p EXCEPT !.root[into] = host[src]]
    ELSE IF ~isdir(p.root, dirname(dst)) THEN raise(p, "FileNotFoundError")
    ELSE [p EXCEPT !.root[dst] = host[src]]

CopyStepKeepsExisting(p, targetFile, path) ==
    IF exists(p.root, path) THEN p
    ELSE IF isfile(host, targetFile)
         THEN IF isdir(p.root, dirname(path))
              THEN shutil_copy(p, targetFile, path)
              ELSE LET d == makedirs(p, dirname(path)) IN
                   IF Live(d) THEN shutil_copy(d, targetFile, path) ELSE d
         ELSE IF isdir(host, targetFile) THEN makedirs(p, path)
         ELSE p

\* Tools.Copy, lines 152-166: the copy itself
CopyStep(p, targetFile, path) ==
    IF exists(p.root, path)
    THEN IF isfile(p.root, path)
         THEN shutil_copy([p EXCEPT !.root[path] = "none"], targetFile, path)
         ELSE p
    ELSE IF isfile(host, targetFile)
         THEN IF isdir(p.root, dirname(path))
              THEN shutil_copy(p, targetFile, path)
              ELSE LET d == makedirs(p, dirname(path)) IN
                   IF Live(d) THEN shutil_copy(d, targetFile, path) ELSE d
         ELSE IF isdir(host, targetFile) THEN makedirs(p, path)
         ELSE p

CopyCheckAlwaysWarns(p, targetFile, path, dontFail) ==
    IF ~isfile(p.root, path) THEN Warn(p, <<"Unable to copy">> \o targetFile) ELSE p

\* Tools.Copy, lines 168-175: the check that the file reached its destination
CopyCheck(p, targetFile, path, dontFail) ==
    IF ~isfile(p.root, path)
    THEN IF dontFail THEN Warn(p, <<"Unable to copy">> \o targetFile)
         ELSE Fail(p, <<"Unable to copy">> \o targetFile)
    ELSE p

\* Tools.Copy(vFile, directoryPrefix=..., dontFail=...); directoryPrefix is None
\* (<<>>) when the caller passes none.  path is relative to var.temp.
Copy(p, vFile, directoryPrefix, dontFail) ==
    IF ~Live(p) THEN p
    ELSE LET targetFile == directoryPrefix \o vFile
             path == directoryPrefix \o vFile
             c == CopyStep(Note(p, "Copy", targetFile), targetFile, path)
         IN IF Live(c) THEN CopyCheck(c, targetFile, path, dontFail) ELSE c

\* Tools.SafeCopy(sourceFile, targetDest, *desiredName); desiredName is None
\* (<<>>) or the one-element tuple of the name.  targetDest is relative to
\* var.temp.
SafeCopy(p, sourceFile, targetDest, desiredName) ==
    IF ~Live(p) THEN p
    ELSE LET sourceFileName == IF desiredName = None THEN sourceFile[Len(sourceFile)]
                               ELSE desiredName[1]
             targetFile == Append(targetDest, sourceFileName)
             q == Note(p, "SafeCopy", sourceFile)
         IN IF exists(host, sourceFile)
            THEN LET c == shutil_copy(q, sourceFile, targetFile) IN
                 IF Live(c) /\ ~isfile(c.root, targetFile)
                 THEN Fail(c, <<"Error creating the", sourceFileName, "file. Exiting.">>)
                 ELSE c
            ELSE Fail(q, <<"The source file doesn't exist:">> \o sourceFile)

\* No call of Tools.Copy or Tools.SafeCopy was made on its own yet
NoCall ==
    [op |-> "none", src |-> <<>>, dir |-> <<>>, name |-> <<>>, dontFail |-> FALSE,
     n |-> 0, same |-> FALSE, srcnow |-> "none", srcwas |-> "none",
     rootwas |-> EmptyFs]

----------------------------------------------------------------------------
(* Core.ConvertNumberedFeaturesToNamedList *)

KeyErrorHandlerKeepsList(named_features) == Append(named_features, "exit")

\* except KeyError: named_features.clear(); named_features.append("exit")
KeyErrorHandler(named_features) == <<"exit">>

RECURSIVE ConvertLoop(_, _, _)
\* The for loop at position i; the result is [exc, list]: exc = "ValueError" when
\* int() raised (nothing catches it), otherwise "none" and the returned list.
ConvertLoop(toks, i, named_features) ==
    IF i > Len(toks) THEN [exc |-> "none", list |-> named_features]
    ELSE LET n == int(toks[i]) IN
         IF ~n.ok THEN [exc |-> "ValueError", list |-> named_features]
         ELSE IF n.val \notin DOMAIN Tools_features
              THEN [exc |-> "none", list |-> KeyErrorHandler(named_features)]
              ELSE ConvertLoop(toks, i + 1,
                               Append(named_features, lower(Tools_features[n.val])))

ConvertNumberedFeaturesToNamedList(numbered_feature_list) ==
    ConvertLoop(numbered_feature_list, 1, <<>>)

------------------------------------------------------------
----------------------------------------------------------------------------
(* Hook *)

\* Hook.Enable: cls._use = 1
Enable(p, hook) == [p EXCEPT !.use[hook] = 1]

\* Hook.IsEnabled
IsEnabled(p, hook) == p.use[hook] # 0

AddFileOnce(p, hook, vFile) ==
    IF \E k \in 1..Len(p.files[hook]) : p.files[hook][k] = vFile
    THEN p
    ELSE [p EXCEPT !.files[hook] = Append(@, vFile)]

\* Hook.AddFile: cls._files.append(vFile)
AddFile(p, hook, vFile) == [p EXCEPT !.files[hook] = Append(@, vFile)]

----------------------------------------------------------------------------
(* Core.PrintMenuAndGetDesiredFeatures *)

InvalidOptionGoesOn(p) == Warn(p, <<"Invalid Option. Exiting.">>)

\* else: Tools.Warn("Invalid Option. Exiting."); quit(1)
InvalidOption(p) == quit(Warn(p, <<"Invalid Option. Exiting.">>), 1)

\* One pass of the body of `for feature in var.features`
FeatureStep(feature, p) ==
    CASE feature = "zfs" -> AddFile(Enable(p, "Zfs"), "Modules", "zfs")
      [] feature = "luks" -> Enable(p, "Luks")
      [] feature = "basic" -> p
      [] feature = "exit" -> quit(Warn(p, <<"Exiting.">>), 0)
      [] OTHER -> InvalidOption(p)

RECURSIVE ForEachFeature(_, _, _)
\* for feature in var.features, from position i on
ForEachFeature(fs, i, p) ==
    IF i > Len(fs) \/ ~Live(p) THEN p
    ELSE ForEachFeature(fs, i + 1, FeatureStep(fs[i], p))

ArgumentsAlsoConverted(p, typed) ==
    LET c == ConvertNumberedFeaturesToNamedList(IF Truthy(p.features) THEN p.features ELSE typed)
    IN IF ~Truthy(p.features) /\ ~Truthy(typed) THEN [p EXCEPT !.features = <<"zfs">>]
       ELSE IF c.exc # "none" THEN raise(p, c.exc)
       ELSE [p EXCEPT !.features = c.list]

\* Lines 156-168: what the menu leaves in var.features; typed is the answer to
\* Tools.Question (None when --features was given and nothing is asked).
DesiredFeatures(p, typed) ==
    IF ~Truthy(p.features)
    THEN IF Truthy(typed)
         THEN LET c == ConvertNumberedFeaturesToNamedList(typed) IN
              IF c.exc # "none" THEN raise([p EXCEPT !.features = typed], c.exc)
              ELSE [p EXCEPT !.features = c.list]
         ELSE [p EXCEPT !.features = <<"zfs">>]
    ELSE p

\* Core.PrintMenuAndGetDesiredFeatures as a whole
SelectFeatures(p, typed) ==
    LET d == DesiredFeatures(p, typed) IN ForEachFeature(d.features, 1, d)


----------------------------------------------------------------------------
(* Core.VerifyBinaries, Core.CreateBaselayout, Core.CopyBinaries             *)

\* Tools.Info
Info(p, vMessage) == Note(p, "Info", vMessage)

BinaryDoesntExistWarns(p, vMessage) ==
    Warn(p, <<"Binary:">> \o vMessage \o <<"doesn't exist. Exiting.">>)

\* Tools.BinaryDoesntExist
BinaryDoesntExist(p, vMessage) ==
    Fail(p, <<"Binary:">> \o vMessage \o <<"doesn't exist. Exiting.">>)

RECURSIVE VerifyBinariesExist(_, _, _)
\* Core.VerifyBinariesExist, from position i of vFiles on
VerifyBinariesExist(p, vFiles, i) ==
    IF i > Len(vFiles) \/ ~Live(p) THEN p
    ELSE VerifyBinariesExist(
            IF ~exists(host, vFiles[i]) THEN BinaryDoesntExist(p, vFiles[i]) ELSE p,
            vFiles, i + 1)

\* Core.VerifyBinaries
VerifyBinaries(p) ==
    LET b == VerifyBinariesExist(Info(p, <<"Checking required files ...">>),
                                 p.files["Base"], 1)
        l == IF IsEnabled(b, "Luks") THEN VerifyBinariesExist(b, b.files["Luks"], 1) ELSE b
    IN IF IsEnabled(l, "Zfs") THEN VerifyBinariesExist(l, l.files["Zfs"], 1) ELSE l

\* call(["mkdir", "-p", dir]): nothing happens when a file is in the way
mkdir_p(p, dir) ==
    IF \E a \in Prefixes(dir) : isfile(p.root, a) THEN p
    ELSE [p EXCEPT !.root = [q \in Paths |-> IF q \in Prefixes(dir) THEN "dir" ELSE @[q]]]

RECURSIVE MkdirEach(_, _, _)
MkdirEach(p, dirs, i) ==
    IF i > Len(dirs) THEN p ELSE MkdirEach(mkdir_p(p, dirs[i]), dirs, i + 1)

\* Core.CreateBaselayout
CreateBaselayout(p) ==
    MkdirEach(Info(p, <<"Creating temporary directory at">>), baselayout, 1)

LinkedDynamicOnly(kind) == kind = "dynamic"

LinkedAnyFile(kind) == kind \notin {"none", "dir"}

\* file -L <file> | grep "linked": whether grep finds the word in what `file`
\* prints for a file of this kind ("dynamically linked", "statically linked")
Linked(kind) == kind \in {"dynamic", "static"}

RECURSIVE FilterAndInstall(_, _, _, _)
\* Core.FilterAndInstall, from position i of vFiles on
FilterAndInstall(p, vFiles, dontFail, i) ==
    IF i > Len(vFiles) \/ ~Live(p) THEN p
    ELSE LET file == vFiles[i]
             q == Note(p, "file", file)
             c == IF Linked(host[file]) THEN [q EXCEPT !.binset = @ \cup {file}] ELSE q
         IN FilterAndInstall(Copy(c, file, None, dontFail), vFiles, dontFail, i + 1)

\* Core.CopyBinaries
CopyBinaries(p) ==
    LET b == FilterAndInstall(Info(p, <<"Copying binaries ...">>), p.files["Base"], FALSE, 1)
        l == IF IsEnabled(b, "Luks") THEN FilterAndInstall(b, b.files["Luks"], FALSE, 1) ELSE b
    IN IF IsEnabled(l, "Zfs")
       THEN FilterAndInstall(FilterAndInstall(l, l.files["Zfs"], FALSE, 1),
                             settings.zfs_optional_files, TRUE, 1)
       ELSE l

RECURSIVE CopyMan(_, _, _)
\* Core.CopyMan
CopyMan(p, fs, i) ==
    IF i > Len(fs) \/ ~Live(p) THEN p
    ELSE CopyMan(Copy(p, fs[i], None, TRUE), fs, i + 1)

\* Core.CopyManPages
CopyManPages(p) ==
    IF IsEnabled(p, "Zfs") /\ settings.zfs_use_man # 0
    THEN CopyMan(Info(p, <<"Copying man pages ...">>), settings.zfs_man_files, 1)
    ELSE p

----------------------------------------------------------------------------
(* Core.CopyDependencies *)

\* The files the patterns of possible_libc_paths stand for, in list order
possible_libc_paths == <<ld_linux, ld_musl>>

Loaders == {possible_libc_paths[k] : k \in 1..Len(possible_libc_paths)}

\* call("grep -Uqs thiswillnevermatch " + libc): 1 when the file is there and
\* does not hold the word, 2 when no file matches
grep(libc_pattern) == IF isfile(host, libc_pattern) THEN 1 ELSE 2

InterpreterNotAdded(deps, result) == deps

\* bindeps.add(result)
AddInterpreter(deps, result) == deps \cup {result}

RECURSIVE ProbeFirstWins(_, _)
ProbeFirstWins(d, i) ==
    IF i > Len(possible_libc_paths) THEN d
    ELSE IF grep(possible_libc_paths[i]) \notin {0, 1} THEN ProbeFirstWins(d, i + 1)
    ELSE [deps |-> AddInterpreter(d.deps, possible_libc_paths[i]), libc_found |-> TRUE]

RECURSIVE ProbeLoaders(_, _)
\* for libc in possible_libc_paths (lines 733-755): d is [deps, libc_found]
ProbeLoaders(d, i) ==
    IF i > Len(possible_libc_paths) THEN d
    ELSE IF grep(possible_libc_paths[i]) \notin {0, 1} THEN ProbeLoaders(d, i + 1)
    ELSE ProbeLoaders([deps |-> AddInterpreter(d.deps, possible_libc_paths[i]),
                       libc_found |-> TRUE], i + 1)

\* results.split("\n"): the lines of the output; "" splits into one empty line,
\* and the empty path is <<>>
split_lines(results) == IF results = <<>> THEN << <<>> >> ELSE results

LddLibrariesUnguarded(results) ==
    {split_lines(results)[k] : k \in 1..Len(split_lines(results))}

\* if results: for library in results.split("\n"): bindeps.add(library)
LddLibraries(results) ==
    IF results # <<>>
    THEN {split_lines(results)[k] : k \in 1..Len(split_lines(results))}
    ELSE {}

\* Lines 760-772: ldd every member of Core._binset
LddAll(p, deps) ==
    LET q == [p EXCEPT !.log = IF p.binset = {} THEN @
                                ELSE Append(@, [op |-> "ldd", args |-> p.binset])]
    IN [q EXCEPT !.bindeps = deps \cup UNION {LddLibraries(lddout[b]) : b \in p.binset}]

RECURSIVE Orders(_)
\* The orders in which a Python set may be iterated
Orders(S) ==
    IF S = {} THEN {<<>>}
    ELSE UNION {{<<x>> \o o : o \in Orders(S \ {x})} : x \in S}

RECURSIVE CopyEach(_, _, _)
\* for x in order: Tools.Copy(x)
CopyEach(p, order, i) ==
    IF i > Len(order) \/ ~Live(p) THEN p
    ELSE CopyEach(Copy(p, order[i], None, FALSE), order, i + 1)

\* Lines 719-772: everything before the copy loop
ResolveDependencies(p) ==
    LET q == Info(p, <<"Copying library dependencies ...">>)
        d == ProbeLoaders([deps |-> {}, libc_found |-> FALSE], 1)
    IN IF ~d.libc_found
       THEN Fail(q, <<"No libc interpreters were found!">>)
       ELSE LddAll(q, d.deps)

----------------------------------------------------------------------------
(* Core.CopyModules, Core.GenerateModprobeInfo *)

ModuleDoesntExistWarns(p, vMessage) ==
    Warn(p, <<"Module:", vMessage, "doesn't exist. Exiting.">>)

\* Tools.ModuleDoesntExist
ModuleDoesntExist(p, vMessage) ==
    Fail(p, <<"Module:", vMessage, "doesn't exist. Exiting.">>)

RECURSIVE FindModules(_, _, _)
\* Lines 660-674: find <var.modules> -iname "<file>.ko" | grep <file>.ko
FindModules(p, names, i) ==
    IF i > Len(names) \/ ~Live(p) THEN p
    ELSE LET q == Note(p, "find", <<names[i]>>)
             result == IF names[i] \in ModuleNames THEN kmods.ko[names[i]] ELSE None
         IN FindModules(IF result = None \/ ~isfile(host, result)
                        THEN ModuleDoesntExist(q, names[i])
                        ELSE [q EXCEPT !.modset = @ \cup {result}],
                        names, i + 1)

\* Lines 676-689: call(["depmod", var.kernel]); var.kernel is not empty once
\* Core.GetDesiredKernel has returned
RefreshDependencyDatabase(p) ==
    IF ~Live(p) THEN p
    ELSE LET q == Note(p, "depmod", <<"k">>) IN
         IF kmods.depmod # 0 THEN Fail(q, <<"Error updating module dependency database!">>)
         ELSE q

\* re.search("(?<=/)[a-zA-Z0-9_-]+.ko", file).group().split(".")[0]
ModuleNameOf(file) ==
    CASE file = nvme_ko -> "nvme"
      [] file = zfs_ko -> "zfs"
      [] file = nvme_core_ko -> "nvme-core"

\* Lines 691-709: modprobe --show-depends for every member of Core._modset
ModprobeAll(p) ==
    IF ~Live(p) THEN p
    ELSE LET q == [p EXCEPT !.log = IF p.modset = {} THEN @
                      ELSE Append(@, [op |-> "modprobe",
                                      args |-> {<<ModuleNameOf(f)>> : f \in p.modset}])]
         IN [q EXCEPT !.moddeps =
                UNION {{split_lines(kmods.depends[ModuleNameOf(f)])[k] :
                          k \in 1..Len(split_lines(kmods.depends[ModuleNameOf(f)]))} :
                       f \in p.modset}]

GenerateModprobeInfoDepmodFirst(p) ==
    IF ~Live(p) THEN p
    ELSE LET i == Note(Info(p, <<"Generating modprobe information ...">>), "depmod -b", <<"k">>)
             f == IF kmods.depmod_b # 0
                  THEN Fail(i, <<"Depmod was unable to refresh the dependency information for your initramfs!">>)
                  ELSE i
         IN Copy(Copy(f, modules_order, None, FALSE), modules_builtin, None, FALSE)

\* Core.GenerateModprobeInfo
GenerateModprobeInfo(p) ==
    IF ~Live(p) THEN p
    ELSE LET i == Info(p, <<"Generating modprobe information ...">>)
             c == Copy(Copy(i, modules_order, None, FALSE), modules_builtin, None, FALSE)
         IN IF ~Live(c) THEN c
            ELSE IF kmods.depmod_b # 0
                 THEN Fail(Note(c, "depmod -b", <<"k">>),
                           <<"Depmod was unable to refresh the dependency information for your initramfs!">>)
                 ELSE Note(c, "depmod -b", <<"k">>)

\* Lines 651-709: everything before the copy loop
ResolveModules(p) ==
    ModprobeAll(RefreshDependencyDatabase(
        FindModules(Info([p EXCEPT !.moddeps = {}], <<"Copying modules ...">>),
                    p.files["Modules"], 1)))

InstallModulesAlways(p, order) == GenerateModprobeInfo(CopyEach(p, order, 1))

\* Lines 711-717: if moddeps: copy them, then Core.GenerateModprobeInfo
InstallModules(p, order) ==
    IF p.moddeps # {} THEN GenerateModprobeInfo(CopyEach(p, order, 1)) ELSE p

----------------------------------------------------------------------------
(* Core.CopyFirmware *)

\* path is src or lies under it
IsUnder(path, src) == Len(path) >= Len(src) /\ SubSeq(path, 1, Len(src)) = src

\* shutil.copytree(src, var.temp + src): the tree of the host at src, copied to
\* the same place under var.temp, which must not be there yet
copytree(p, src) ==
    IF ~exists(host, src) THEN raise(p, "FileNotFoundError")
    ELSE IF ~isdir(host, src) THEN raise(p, "NotADirectoryError")
    ELSE IF exists(p.root, src) THEN raise(p, "FileExistsError")
    ELSE IF \E a \in Prefixes(src) : isfile(p.root, a) THEN raise(p, "NotADirectoryError")
    ELSE [p EXCEPT !.root = [q \in Paths |->
                                IF IsUnder(q, src) THEN host[q]
                                ELSE IF q \in Prefixes(src) THEN "dir"
                                ELSE @[q]]]

RECURSIVE CopyFirmwareFiles(_, _, _)
\* Lines 296-304: try: for fw in Firmware.GetFiles(): Tools.Copy(fw,
\* directoryPrefix=var.firmwareDirectory) except FileNotFoundError: Tools.Warn
CopyFirmwareFiles(p, fws, k) ==
    IF k > Len(fws) \/ ~Live(p) THEN p
    ELSE LET c == Copy(p, fws[k], firmwareDirectory, FALSE) IN
         IF c.exit_code = -1 /\ c.exc = "FileNotFoundError"
         THEN Warn([c EXCEPT !.exc = "none"],
                   <<"An error occurred while copying the following firmware file:">>
                       \o fws[k])
         ELSE CopyFirmwareFiles(c, fws, k + 1)

RECURSIVE CopyFirmwareDirectories(_, _, _)
\* Lines 308-324: try: for fw in Firmware.GetDirectories(): shutil.copytree(...)
\* except FileNotFoundError: Tools.Warn
CopyFirmwareDirectories(p, fws, k) ==
    IF k > Len(fws) \/ ~Live(p) THEN p
    ELSE LET c == copytree(Note(p, "copytree", firmwareDirectory \o fws[k]),
                           firmwareDirectory \o fws[k]) IN
         IF c.exit_code = -1 /\ c.exc = "FileNotFoundError"
         THEN Warn([c EXCEPT !.exc = "none"],
                   <<"An error occurred while copying the following directory:">>
                       \o fws[k])
         ELSE CopyFirmwareDirectories(c, fws, k + 1)

\* Core.CopyFirmware
CopyFirmware(p) ==
    IF ~IsEnabled(p, "Firmware") THEN p
    ELSE LET i == Info(p, <<"Copying firmware...">>) IN
         IF ~isdir(host, firmwareDirectory)
         THEN Fail(i, <<"The">> \o firmwareDirectory \o <<"directory does not exist">>)
         ELSE IF settings.firmware_copy_all # 0
              THEN copytree(Note(i, "copytree", firmwareDirectory), firmwareDirectory)
              ELSE LET f == IF i.files["Firmware"] # <<>>
                            THEN CopyFirmwareFiles(i, i.files["Firmware"], 1) ELSE i
                   IN IF Live(f) /\ settings.firmware_directories # <<>>
                      THEN CopyFirmwareDirectories(f, settings.firmware_directories, 1)
                      ELSE f

----------------------------------------------------------------------------
(* Core.CreateLinks *)

\* os.remove(var.temp + path)
os_remove(p, path) ==
    IF ~Live(p) THEN p
    ELSE IF isfile(p.root, path) THEN [p EXCEPT !.root[path] = "none"]
    ELSE IF isdir(p.root, path) THEN raise(p, "IsADirectoryError")
    ELSE raise(p, "FileNotFoundError")

\* os.symlink(target, path), path under var.temp
os_symlink(p, path) ==
    IF ~Live(p) THEN p
    ELSE IF exists(p.root, path) THEN raise(p, "FileExistsError")
    ELSE IF ~isdir(p.root, dirname(path)) THEN raise(p, "FileNotFoundError")
    ELSE [p EXCEPT !.root[path] = Link]

\* os.chdir(var.temp + dir)
os_chdir(p, dir) ==
    IF ~Live(p) THEN p
    ELSE IF isdir(p.root, dir) THEN p
    ELSE IF exists(p.root, dir) THEN raise(p, "NotADirectoryError")
    ELSE raise(p, "FileNotFoundError")

\* chroot var.temp /bin/busybox sh -c "cd /bin && /bin/busybox --install -s .":
\* a link in /bin for every applet that has no file there yet
BusyboxInstall(p, applets) ==
    [p EXCEPT !.root = [q \in Paths |->
        IF (\E a \in applets : q = <<"bin", a>>) /\ ~exists(p.root, q) THEN Link ELSE @[q]]]

RECURSIVE KmodLinks(_, _, _, _)
\* Lines 361-363: for link in Base.GetKmodLinks(), in the directory cwd
KmodLinks(p, cwd, links, k) ==
    IF k > Len(links) \/ ~Live(p) THEN p
    ELSE KmodLinks(os_symlink(os_remove(p, <<"bin", links[k]>>), Append(cwd, links[k])),
                   cwd, links, k + 1)

\* Core.CreateLinks; callResult is what the chroot call returns and applets the
\* applets of the busybox in var.temp
CreateLinks(p, callResult, applets) ==
    LET c == os_chdir(Info(p, <<"Creating symlinks ...">>), <<"bin">>)
        r == Note(c, "chroot", <<"busybox --install">>)
        n == IF ~Live(c) THEN c
             ELSE IF callResult # 0
                  THEN Fail(r, <<"Unable to create busybox links via chroot!">>)
             ELSE r
        b == IF Live(n) /\ callResult = 0 THEN BusyboxInstall(n, applets) ELSE n
        s == os_symlink(os_remove(b, <<"bin", "sh">>), <<"bin", "sh">>)
        cwd == IF isfile(s.root, <<"sbin", "kmod">>) THEN <<"sbin">> ELSE <<"bin">>
    IN KmodLinks(s, cwd, settings.base_kmod_links, 1)

----------------------------------------------------------------------------
(* Core.LastSteps and what it calls *)

\* A shell command that writes var.temp + path (touch, echo ... > path)
shell_write(p, path) ==
    IF ~Live(p) THEN p
    ELSE IF isdir(p.root, dirname(path)) /\ ~isdir(p.root, path)
         THEN [p EXCEPT !.root[path] = IF isfile(p.root, path) THEN @ ELSE "data"]
    ELSE p

\* Files whose names match "*.so.*"
SharedObjects == {libc, libz, ld_linux, ld_musl, libgcc}

\* Core._FindAndCreateLinks: find <sourceDirectory> ... -exec ln -sf "{}"
\* <targetDirectory>, run in a chroot whose result nobody looks at.  made tells
\* what the run did: "none" (it did not run), "links" (a link for every file
\* that lies in another directory), "selflinks" (also a link in place of a
\* file that lies in targetDirectory itself)
FindAndCreateLinks(p, sourceDirectory, targetDirectory, made) ==
    IF made = "none" THEN p
    ELSE [p EXCEPT !.root = [q \in Paths |->
            IF \E f \in SharedObjects :
                  /\ IsUnder(f, sourceDirectory) /\ isfile(p.root, f)
                  /\ q = Append(targetDirectory, f[Len(f)])
                  /\ (q # f \/ made = "selflinks")
                  /\ ~isdir(p.root, q)
            THEN Link ELSE @[q]]]

\* Core.CreateLibraryLinks
CreateLibraryLinks(p, made) ==
    IF ~Live(p) THEN p
    ELSE LET a == IF isdir(p.root, <<"usr", "lib">>) /\ isdir(p.root, <<"lib64">>)
                  THEN FindAndCreateLinks(p, <<"usr", "lib">>, <<"lib64">>, made) ELSE p
             b == IF isdir(a.root, <<"usr", "lib32">>) /\ isdir(a.root, <<"lib32">>)
                  THEN FindAndCreateLinks(a, <<"usr", "lib32">>, <<"lib32">>, made) ELSE a
             c == IF isdir(b.root, <<"usr", "lib64">>) /\ isdir(b.root, <<"lib64">>)
                  THEN FindAndCreateLinks(b, <<"usr", "lib64">>, <<"lib64">>, made) ELSE b
         IN IF isdir(c.root, <<"lib">>)
            THEN FindAndCreateLinks(c, <<"lib">>, <<"lib">>, made) ELSE c

\* os.listdir(var.temp + dir)
listdir(fs, dir) ==
    {q \in Paths : Len(q) = Len(dir) + 1 /\ IsUnder(q, dir) /\ exists(fs, q)}

\* os.rename(var.temp + src, var.temp + dst) of a regular file
os_rename(p, src, dst) ==
    IF ~isdir(p.root, dirname(dst)) THEN raise(p, "FileNotFoundError")
    ELSE IF isdir(p.root, dst) THEN raise(p, "IsADirectoryError")
    ELSE [p EXCEPT !.root[dst] = p.root[src], !.root[src] = "none"]

\* Core.CopyUdevAndSupportFiles
CopyUdevAndSupportFiles(p) ==
    IF ~Live(p) THEN p
    ELSE LET a == IF isdir(host, udevConfigDirectory)
                  THEN copytree(Note(p, "copytree", udevConfigDirectory), udevConfigDirectory)
                  ELSE p
             b == IF Live(a) /\ isdir(host, udevLibDirectory)
                  THEN copytree(Note(a, "copytree", udevLibDirectory), udevLibDirectory)
                  ELSE a
         IN IF Live(b) /\ isfile(b.root, udev_path) /\ udev_path # sbin_udevd
            THEN LET r == os_rename(b, udev_path, sbin_udevd) IN
                 IF Live(r) /\ listdir(r.root, dirname(udev_path)) = {}
                 THEN [r EXCEPT !.root[dirname(udev_path)] = "none"]
                 ELSE r
            ELSE b

\* Core.DumpSystemKeymap; result is what "dumpkeys > <file>" returns
DumpSystemKeymap(p, result) ==
    IF ~Live(p) THEN p
    ELSE LET w == shell_write(Note(p, "dumpkeys", <<>>), <<"etc", "keymap">>) IN
         IF result # 0 \/ ~isfile(w.root, <<"etc", "keymap">>)
         THEN Warn(w, <<"There was an error dumping the system's current keymap. Ignoring.">>)
         ELSE w

\* Core.CopyLibGccLibrary; res is the first line of `gcc-config -L | cut -d ':'
\* -f 1` (<<>> when it prints nothing).  Tools.GetProgramPath returns a string
\* that is not empty whenever whereis runs, and Tools.Run a list that is not
\* empty, so the path is always tried.
CopyLibGccLibrary(p, res) ==
    IF ~Live(p) THEN p
    ELSE LET libgccPath == res \o <<"libgcc_s.so.1">>
             c == SafeCopy(Note(p, "gcc-config", res), libgccPath, <<"lib64">>, None)
         IN os_symlink(os_chdir(c, <<"lib64">>), <<"lib64", "libgcc_s.so">>)

\* Core.LastSteps.  o.files_dir tells whether the module Variables has the
\* attribute files_dir that line 471 reads (Variables.py defines filesDirectory)
LastSteps(p, o) ==
    LET Mtab(x) ==
            LET w == shell_write(Info(x, <<"Performing finishing steps ...">>),
                                 <<"etc", "mtab">>)
            IN IF ~isfile(w.root, <<"etc", "mtab">>)
               THEN Fail(w, <<"Error creating the mtab file. Exiting.">>) ELSE w
        LibraryLinks(x) == CreateLibraryLinks(x, o.made)
        InitScript(x) ==
            IF ~Live(x) THEN x
            ELSE IF ~o.files_dir THEN raise(x, "AttributeError")
            ELSE SafeCopy(x, files_init, <<>>, None)
        Chmod(x) ==
            IF Live(x) /\ o.chmod # 0
            THEN Fail(x, <<"Failed to give executive privileges to", "init">>) ELSE x
        Version(x) == shell_write(x, <<"version.bliss">>)
        Modprobe(x) ==
            IF Live(x) /\ isdir(host, modprobeDirectory)
            THEN copytree(Note(x, "copytree", modprobeDirectory), modprobeDirectory) ELSE x
        Keymap(x) == DumpSystemKeymap(x, o.dumpkeys)
        Keyfile(x) ==
            IF Live(x) /\ IsEnabled(x, "Luks") /\ settings.luks_use_keyfile # 0
            THEN SafeCopy(x, keyfile_path, <<"etc">>, <<"keyfile">>) ELSE x
        Header(x) ==
            IF Live(x) /\ IsEnabled(x, "Luks") /\ settings.luks_use_detached_header # 0
            THEN SafeCopy(x, header_path, <<"etc">>, <<"header">>) ELSE x
        ModulesBliss(x) == shell_write(x, <<"modules.bliss">>)
        LibGcc(x) == CopyLibGccLibrary(x, o.res)
        \* the statements in their order: each set holds the one state the
        \* statement leaves when it starts in the state of the set before
        s1 == {Mtab(x) : x \in {p}}
        s2 == {LibraryLinks(x) : x \in s1}
        s3 == {InitScript(x) : x \in s2}
        s4 == {Chmod(x) : x \in s3}
        s5 == {Version(x) : x \in s4}
        s6 == {Modprobe(x) : x \in s5}
        s7 == {CopyUdevAndSupportFiles(x) : x \in s6}
        s8 == {Keymap(x) : x \in s7}
        s9 == {Keyfile(x) : x \in s8}
        s10 == {Header(x) : x \in s9}
        s11 == {ModulesBliss(x) : x \in s10}
    IN CHOOSE q \in {LibGcc(x) : x \in s11} : TRUE

----------------------------------------------------------------------------
(* Core.CreateInitramfs, Tools.CleanAndExit *)

\* What is at var.home + "/" + var.initrd after "find . -print0 | cpio -o --null
\* --format=newc | gzip -9 > <image>", which may write the image ("written"),
\* fail after the shell has created the file ("partial"), or fail to create
\* the file ("nofile")
Packaged(image, outcome) ==
    CASE outcome = "written" -> "image"
      [] outcome = "partial" -> "partial"
      [] OTHER -> image

\* Core.CreateInitramfs; image is what is at the image's path after the command
CreateInitramfs(p, outcome, image) ==
    LET c == os_chdir(Info(p, <<"Creating the initramfs ...">>), <<>>)
        n == IF Live(c) THEN Note(c, "cpio", <<outcome>>) ELSE c
    IN IF Live(n) /\ image = "none"
       THEN Fail(n, <<"Error creating the initramfs. Exiting.">>) ELSE n

\* Tools.CleanAndExit
CleanAndExit(p) == quit(Info(Clean(p), <<"Please copy", "to your /boot directory">>), 0)

----------------------------------------------------------------------------
(* Configuration *)

\* The manifests Core.LoadSettings reads from settings.json
ConfiguredFiles(s) ==
    [h \in Hooks |->
        CASE h = "Base" -> s.base_files
          [] h = "Modules" -> s.modules_files
          [] h = "Zfs" -> s.zfs_files
          [] h = "Luks" -> s.luks_files
          [] h = "Firmware" -> s.firmware_files]

SettingsChoices ==
    [base_files : {<<busybox, bash>>},
     modules_files : {<<>>, <<"nvme">>, <<"zfs">>, <<"zfs", "nvme">>},
     zfs_files : {<<zfs>>},
     zfs_optional_files : {<<zed>>},
     zfs_use_man : {0, 1},
     zfs_man_files : {<<zfs_8>>},
     luks_files : {<<cryptsetup>>},
     firmware_files : {<<>>},
     firmware_use : {0, 1},
     firmware_copy_all : {0},
     firmware_directories : {<<>>},
     base_kmod_links : {<<>>},
     luks_use_keyfile : {0},
     luks_use_detached_header : {0}]

\* A host on which nothing is missing.
FullHost ==
    HostWith([f \in HostFiles |->
        IF f \in {busybox, bash, cryptsetup, zfs} THEN "dynamic" ELSE "data"])

\* A module tree in which every module is found and both depmod runs succeed.
FullModules ==
    [ko |-> [n \in ModuleNames |-> IF n = "nvme" THEN nvme_ko ELSE zfs_ko],
     depends |-> [n \in ModuleNames |->
                    IF n = "nvme" THEN <<nvme_core_ko, nvme_ko>> ELSE <<zfs_ko>>],
     depmod |-> 0,
     depmod_b |-> 0]

----------------------------------------------------------------------------
(* The driver.  A traceback ends the process with status 1.                 *)

Uncaught(p) == IF p.exc # "none" /\ p.exit_code = -1 THEN quit(p, 1) ELSE p

\* The state after a call of the driver that leaves the process in state q.
Becomes(q, next) ==
    LET p == Uncaught(q) IN
    /\ features' = p.features
    /\ use' = p.use
    /\ files' = p.files
    /\ root' = p.root
    /\ binset' = p.binset
    /\ bindeps' = p.bindeps
    /\ modset' = p.modset
    /\ moddeps' = p.moddeps
    /\ log' = p.log
    /\ exc' = p.exc
    /\ exit_code' = p.exit_code
    /\ pc' = IF p.exit_code # -1 THEN "exited" ELSE next

\* Tools.ProcessArguments
ProcessArguments ==
    /\ pc = "start"
    /\ Becomes(IF user # "root"
               THEN Fail(Cur, <<"This program must be ran as root">>)
               ELSE IF Truthy(args_features)
                    THEN [Cur EXCEPT !.features = args_features]
                    ELSE Cur,
               "args")
    /\ UNCHANGED <<env, answer, call, initrd>>

\* Core.LoadSettings
LoadSettings ==
    /\ pc = "args"
    /\ Becomes([Cur EXCEPT !.files = ConfiguredFiles(settings),
                           !.use["Firmware"] = settings.firmware_use],
               "loaded")
    /\ UNCHANGED <<env, answer, call, initrd>>

\* Core.PrintMenuAndGetDesiredFeatures
PrintMenuAndGetDesiredFeatures ==
    /\ pc = "loaded"
    /\ \E typed \in IF Truthy(features) THEN {None} ELSE RawStrings :
        /\ answer' = typed
        /\ Becomes(SelectFeatures(Cur, typed), "selected")
    /\ UNCHANGED <<env, call, initrd>>

\* The process as the interpreter starts it: the class bodies of Hook and Core
\* have run (Base.Enable(), Modules.Enable()).
InitProcess ==
    /\ answer = None
    /\ features = EmptyString
    /\ use = [h \in Hooks |-> IF h \in {"Base", "Modules"} THEN 1 ELSE 0]
    /\ files = [h \in Hooks |-> <<>>]
    /\ root = EmptyFs
    /\ binset = {}
    /\ bindeps = {}
    /\ modset = {}
    /\ moddeps = {}
    /\ log = <<>>
    /\ exc = "none"
    /\ exit_code = -1
    /\ pc = "start"
    /\ call = NoCall
    /\ initrd = "none"
    /\ FirstRun

Init ==
    /\ user \in {"root", "jon"}
    /\ args_features \in {None} \cup RawStrings
    /\ settings \in {s \in SettingsChoices : s.firmware_use = 0 /\ s.zfs_use_man = 0}
    /\ host = FullHost
    /\ lddout = [b \in HostFiles |-> <<>>]
    /\ kmods = FullModules
    /\ InitProcess

Next ==
    \/ ProcessArguments
    \/ LoadSettings
    \/ PrintMenuAndGetDesiredFeatures

Spec == Init /\ [][Next]_vars


----------------------------------------------------------------------------
(* The build: the stages after feature selection                            *)

\* Core.VerifyBinaries
VerifyRequiredFiles ==
    /\ pc = "selected"
    /\ Becomes(VerifyBinaries(Cur), "verified")
    /\ UNCHANGED <<env, answer, call, initrd>>

\* Core.CreateBaselayout
CreateLayout ==
    /\ pc = "verified"
    /\ Becomes(CreateBaselayout(Cur), "layout")
    /\ UNCHANGED <<env, answer, call, initrd>>

\* Core.CopyBinaries
CopyRequiredBinaries ==
    /\ pc = "layout"
    /\ Becomes(CopyBinaries(Cur), "binaries")
    /\ UNCHANGED <<env, answer, call, initrd>>

\* Core.CopyDependencies
CopyDependencies ==
    /\ pc = "binaries"
    /\ LET r == ResolveDependencies(Cur) IN
       \E order \in Orders(r.bindeps) : Becomes(CopyEach(r, order, 1), "deps")
    /\ UNCHANGED <<env, answer, call, initrd>>

\* Core.CopyManPages
CopyZfsManPages ==
    /\ pc = "deps"
    /\ Becomes(CopyManPages(Cur), "man")
    /\ UNCHANGED <<env, answer, call, initrd>>

\* Core.CopyModules
CopyModules ==
    /\ pc = "man"
    /\ LET r == ResolveModules(Cur) IN
       \E order \in Orders(r.moddeps) :
          Becomes(InstallModules(r, order), "modules")
    /\ UNCHANGED <<env, answer, call, initrd>>

\* The lines the ldd pipeline may print for one binary
LddOutputs == UNION {[1..n -> Libraries \cup {ld_musl}] : n \in 0..MaxLdd}

\* The hosts of the build: which files are there and what `file` says of them
BuildHosts ==
    {HostWith([f \in HostFiles |->
                 CASE f = busybox -> bb
                   [] f = bash -> sh
                   [] f = zed -> zd
                   [] f = libc -> lc
                   [] f = ld_linux -> gl
                   [] f = ld_musl -> mu
                   [] f \in {cryptsetup, zfs} -> "dynamic"
                   [] OTHER -> "data"]) :
        bb \in {"dynamic", "static", "script", "none"}, sh \in {"dynamic", "script"},
        zd \in {"script", "none"}, lc \in {"data", "none"},
        gl \in {"data", "none"}, mu \in {"data", "none"}}

\* What the ldd pipeline prints when busybox prints o
LddOf(o) ==
    [b \in HostFiles \cup OtherFiles |->
        CASE b = busybox -> o
          [] b \in {bash, kmod, udev_path} -> <<libc>>
          [] b = cryptsetup -> <<libc, libz>>
          [] b = zfs -> <<libz>>
          [] OTHER -> <<>>]

\* Module trees: modprobe --show-depends may print nothing for nvme, and either
\* depmod run may fail
BuildModules ==
    {[FullModules EXCEPT !.depends["nvme"] = d, !.depmod = r, !.depmod_b = b] :
        d \in {<<nvme_core_ko, nvme_ko>>, <<nvme_core_ko, zfs_ko>>, <<>>},
        r \in {0, 1}, b \in {0, 1}}

\* Hosts on which a module file or a required file of Luks or Zfs may be missing
ModuleHosts ==
    {HostWith([f \in HostFiles |->
                 CASE f \in {busybox, bash} -> "dynamic"
                   [] f = cryptsetup -> cs
                   [] f = zfs -> zf
                   [] f = nvme_ko -> nv
                   [] f = zfs_ko -> zk
                   [] f = ld_musl -> "none"
                   [] OTHER -> "data"]) :
        cs \in {"dynamic", "none"}, zf \in {"dynamic", "none"},
        nv \in {"data", "none"}, zk \in {"data", "none"}}

InitBuild ==
    LET
        \* Runs that differ in the binaries, the loaders and what ldd prints
        DependencyInputs ==
            /\ settings \in {s \in SettingsChoices :
                                /\ s.firmware_use = 0
                                /\ s.zfs_use_man = 1
                                /\ s.modules_files \in {<<>>, <<"nvme">>}}
            /\ host \in BuildHosts
            /\ lddout \in {LddOf(o) : o \in LddOutputs}
            /\ kmods = FullModules

        \* Runs that differ in the requested modules, the module tree and the required
        \* files of Luks and Zfs
        ModuleInputs ==
            /\ settings \in {s \in SettingsChoices : s.firmware_use = 0 /\ s.zfs_use_man = 0}
            /\ host \in ModuleHosts
            /\ lddout = LddOf(<<libc>>)
            /\ kmods \in BuildModules
    IN
    /\ user = "root"
    /\ args_features \in {<<"basic">>, <<"zfs">>, <<"luks">>, <<"luks", "zfs">>}
    /\ DependencyInputs \/ ModuleInputs
    /\ InitProcess

NextBuild ==
    \/ ProcessArguments
    \/ LoadSettings
    \/ PrintMenuAndGetDesiredFeatures
    \/ VerifyRequiredFiles
    \/ CreateLayout
    \/ CopyRequiredBinaries
    \/ CopyDependencies
    \/ CopyZfsManPages
    \/ CopyModules

SpecBuild == InitBuild /\ [][NextBuild]_vars

----------------------------------------------------------------------------
(* Tools.Copy and Tools.SafeCopy called one after the other on a build root  *)
(* that holds the scaffold, while the files of the host change               *)

\* var.temp after Core.CreateBaselayout
Scaffold == MkdirEach([root |-> EmptyFs], baselayout, 1).root

\* What may be at the path of such a file
SourceStates == {"none", "dir", "data", "script"}

CopyHosts ==
    {HostWith([f \in HostFiles \cup OtherFiles |->
                 CASE f = zed -> a
                   [] f = zfs_8 -> b
                   [] f = keyfile_path -> c
                   [] f \in {busybox, bash, cryptsetup, zfs} -> "dynamic"
                   [] OTHER -> "data"]) :
        a \in SourceStates, b \in SourceStates, c \in SourceStates}

\* The arguments Core passes to Tools.Copy: an optional ZFS file and a man page
\* (tolerant in Core.FilterAndInstall and Core.CopyMan), the same as required
\* files, a firmware file with directoryPrefix, and an optional path that is
\* the directory of zed
CopyArguments ==
    {[src |-> f, dir |-> None, dontFail |-> d] : f \in {zed, zfs_8}, d \in BOOLEAN}
        \cup {[src |-> fw_a, dir |-> firmwareDirectory, dontFail |-> FALSE],
              [src |-> dirname(zed), dir |-> None, dontFail |-> TRUE]}

\* The arguments Core.LastSteps passes to Tools.SafeCopy
SafeCopyArguments ==
    {[src |-> keyfile_path, dir |-> <<"etc">>, name |-> <<"keyfile">>],
     [src |-> files_init, dir |-> <<>>, name |-> None]}

\* The record of a call made now: same tells whether the call before had the
\* same arguments, srcnow and srcwas what the host held at the source at this
\* call and at the call before, rootwas what var.temp held before this call
Called(op, src, dir, name, dontFail, hostpath) ==
    [op |-> op, src |-> src, dir |-> dir, name |-> name, dontFail |-> dontFail,
     n |-> call.n + 1,
     same |-> /\ call.op = op /\ call.src = src /\ call.dir = dir
              /\ call.name = name /\ call.dontFail = dontFail,
     srcnow |-> host[hostpath],
     srcwas |-> call.srcnow,
     rootwas |-> root]

\* Tools.Copy(vFile, directoryPrefix=..., dontFail=...)
CopyCall ==
    /\ pc = "copy"
    /\ call.n < MaxCalls
    /\ \E a \in CopyArguments :
          /\ call' = Called("Copy", a.src, a.dir, None, a.dontFail, a.dir \o a.src)
          /\ Becomes(Copy(Cur, a.src, a.dir, a.dontFail), "copy")
    /\ UNCHANGED <<env, answer, initrd>>

\* Tools.SafeCopy(sourceFile, targetDest, *desiredName)
SafeCopyCall ==
    /\ pc = "copy"
    /\ call.n < MaxCalls
    /\ \E a \in SafeCopyArguments :
          /\ call' = Called("SafeCopy", a.src, a.dir, a.name, FALSE, a.src)
          /\ Becomes(SafeCopy(Cur, a.src, a.dir, a.name), "copy")
    /\ UNCHANGED <<env, answer, initrd>>

\* Between two calls the host replaces, removes or creates what is at the
\* source of the last call
HostChange ==
    /\ pc = "copy"
    /\ 0 < call.n /\ call.n < MaxCalls
    /\ LET hostpath == IF call.op = "Copy" THEN call.dir \o call.src ELSE call.src IN
       /\ hostpath \in {zed, zfs_8, keyfile_path}
       /\ host[hostpath] = call.srcnow
       /\ \E kind \in SourceStates \ {host[hostpath]} :
             host' = [host EXCEPT ![hostpath] = kind]
    /\ UNCHANGED <<user, args_features, settings, lddout, kmods, answer, pc, features,
                   use, files, root, binset, bindeps, modset, moddeps, log, exc,
                   exit_code, call, initrd, rstring, home, runs>>

InitCopy ==
    /\ user = "root"
    /\ args_features = <<"basic">>
    /\ answer = None
    /\ settings \in {s \in SettingsChoices :
                        /\ s.firmware_use = 0 /\ s.zfs_use_man = 1 /\ s.modules_files = <<>>}
    /\ host \in CopyHosts
    /\ lddout = LddOf(<<libc>>)
    /\ kmods = FullModules
    /\ features = <<"basic">>
    /\ use = [h \in Hooks |-> IF h \in {"Base", "Modules"} THEN 1 ELSE 0]
    /\ files = ConfiguredFiles(settings)
    /\ root = Scaffold
    /\ binset = {}
    /\ bindeps = {}
    /\ modset = {}
    /\ moddeps = {}
    /\ log = <<>>
    /\ exc = "none"
    /\ exit_code = -1
    /\ pc = "copy"
    /\ call = NoCall
    /\ initrd = "none"
    /\ FirstRun

NextCopy ==
    \/ CopyCall
    \/ SafeCopyCall
    \/ HostChange

SpecCopy == InitCopy /\ [][NextCopy]_vars

----------------------------------------------------------------------------
(* The build to its end: the stages after Core.CopyModules                   *)

\* Core.CopyFirmware
CopyConfiguredFirmware ==
    /\ pc = "modules"
    /\ Becomes(CopyFirmware(Cur), "firmware")
    /\ UNCHANGED <<env, answer, call, initrd>>

\* Core.CreateLinks
CreateSymlinks ==
    /\ pc = "firmware"
    /\ \E callResult \in {0, 1}, applets \in {{"sh"}, {"sh", "modprobe"}} :
          Becomes(CreateLinks(Cur, callResult, applets), "links")
    /\ UNCHANGED <<env, answer, call, initrd>>

\* Core.LastSteps
PerformLastSteps ==
    /\ pc = "links"
    /\ \E o \in [made : {"none", "links", "selflinks"}, files_dir : BOOLEAN,
                chmod : {0, 1}, dumpkeys : {0, 1}, res : {gcc_lib, <<>>}] :
          Becomes(LastSteps(Cur, o), "finished")
    /\ UNCHANGED <<env, answer, call, initrd>>

\* Core.CreateInitramfs
PackageInitramfs ==
    /\ pc = "finished"
    /\ \E outcome \in {"written", "partial", "nofile"} :
          /\ initrd' = IF isdir(root, <<>>) THEN Packaged(initrd, outcome) ELSE initrd
          /\ Becomes(CreateInitramfs(Cur, outcome, Packaged(initrd, outcome)), "packed")
    /\ UNCHANGED <<env, answer, call>>

\* Tools.CleanAndExit(var.initrd)
CleanUpAndExit ==
    /\ pc = "packed"
    /\ Becomes(CleanAndExit(Cur), "exited")
    /\ UNCHANGED <<env, answer, call, initrd>>

\* Hosts of the whole build: the binaries and libraries are there, firmware
\* files and directories may be missing
FinishHosts ==
    {HostWith([f \in HostFiles \cup OtherFiles |->
                 CASE f \in {busybox, bash, cryptsetup, zfs, kmod, udev_path} -> "dynamic"
                   [] f = firmwareDirectory \o fw_a -> a
                   [] f = firmwareDirectory \o fw_b -> b
                   [] f = firmwareDirectory \o fw_d \o <<"x.bin">> -> d
                   [] f = firmwareDirectory \o fw_e \o <<"y.bin">> -> e
                   [] f = keyfile_path -> k
                   [] f = ld_musl -> "none"
                   [] OTHER -> "data"]) :
        a \in {"data", "none"}, b \in {"data", "none"}, d \in {"data", "none"},
        e \in {"data", "none"}, k \in {"data", "none"}}

\* Settings of the whole build
FinishSettings ==
    {[s EXCEPT !.base_files = <<busybox, bash, kmod, udev_path>>,
               !.firmware_use = fu, !.firmware_copy_all = ca,
               !.firmware_files = ff, !.firmware_directories = fd,
               !.base_kmod_links = kl, !.luks_use_keyfile = uk] :
        s \in {t \in SettingsChoices :
                  /\ t.firmware_use = 0 /\ t.zfs_use_man = 0 /\ t.modules_files = <<>>},
        fu \in {0, 1}, ca \in {0, 1}, ff \in {<<>>, <<fw_a, fw_b>>},
        fd \in {<<>>, <<fw_d, fw_e>>}, kl \in {<<>>, <<"modprobe">>}, uk \in {0, 1}}

InitFinish ==
    LET
        \* The firmware hook with every choice of its lists, on hosts where some of
        \* the listed files and directories are missing
        FirmwareInputs ==
            /\ args_features = <<"basic">>
            /\ settings \in {s \in FinishSettings :
                               /\ s.firmware_use = 1
                               /\ s.base_kmod_links = <<>> /\ s.luks_use_keyfile = 0}
            /\ host \in {h \in FinishHosts : h[keyfile_path] = "data"}

        \* The steps after the firmware, with and without kmod links and a LUKS keyfile
        LastInputs ==
            /\ args_features \in {<<"basic">>, <<"luks">>}
            /\ settings \in {s \in FinishSettings :
                               /\ s.firmware_use = 0 /\ s.firmware_copy_all = 0
                               /\ s.firmware_files = <<>> /\ s.firmware_directories = <<>>}
            /\ host \in {h \in FinishHosts :
                           \A f \in FirmwareFiles : h[f] = "data"}
    IN
    /\ user = "root"
    /\ FirmwareInputs \/ LastInputs
    /\ lddout = LddOf(<<libc>>)
    /\ kmods = FullModules
    /\ InitProcess

NextFinish ==
    \/ NextBuild
    \/ CopyConfiguredFirmware
    \/ CreateSymlinks
    \/ PerformLastSteps
    \/ PackageInitramfs
    \/ CleanUpAndExit

SpecFinish == InitFinish /\ [][NextFinish]_vars

----------------------------------------------------------------------------
(* Feature selection: claims C1 to C5, checked under Spec                   *)

\* --features was given (and is what the loop runs over)
FromArguments == user = "root" /\ Truthy(args_features)

\* the menu was shown and something was typed
FromMenu == user = "root" /\ ~Truthy(args_features) /\ Truthy(answer)

\* PrintMenuAndGetDesiredFeatures has returned or ended the process
SelectionOver == user = "root" /\ pc \in {"selected", "exited"}

Recognized(fs) == \A k \in 1..Len(fs) : fs[k] \in FeatureNames

\* The first position whose name ends the loop: "exit" or an unrecognized name
FirstStop(fs) ==
    CHOOSE k \in 1..Len(fs) :
        /\ fs[k] \notin {"zfs", "luks", "basic"}
        /\ \A j \in 1..(k - 1) : fs[j] \in {"zfs", "luks", "basic"}

\* How often name occurs among the first n names
Occurrences(fs, n, name) == Cardinality({j \in 1..n : j <= Len(fs) /\ fs[j] = name})

Repeat(name, n) == [j \in 1..n |-> name]

Flag(b) == IF b THEN 1 ELSE 0

CodeTokens == {"1", "2", "3"}

NumericTokens == {"0", "1", "2", "3", "4"}

NameOfCode(c) == CASE c = "1" -> "zfs" [] c = "2" -> "luks" [] c = "3" -> "basic"

NamesOfCodes(cs) == [k \in 1..Len(cs) |-> NameOfCode(cs[k])]

OnlyFrom(fs, S) == \A k \in 1..Len(fs) : fs[k] \in S

\* The process after LoadSettings with var.features = fs
LoadedWith(fs) ==
    [features |-> fs,
     use |-> [h \in Hooks |-> IF h \in {"Base", "Modules"} THEN 1
                              ELSE IF h = "Firmware" THEN settings.firmware_use ELSE 0],
     files |-> ConfiguredFiles(settings), root |-> EmptyFs, binset |-> {},
     bindeps |-> {}, modset |-> {}, moddeps |-> {}, log |-> <<>>, exc |-> "none",
     exit_code |-> -1]

\* What passing the names fs through --features leaves behind
NamesRun(fs) == Uncaught(SelectFeatures(LoadedWith(fs), None))

\* C1 as claimed: a name sequence that contains an unrecognized name degrades
\* as a whole to ["exit"]; no hook is enabled and Modules is not changed by the
\* recognized names before the unrecognized one.
C1_AsClaimed ==
    (FromArguments /\ SelectionOver /\ ~Recognized(args_features)) =>
        /\ features = <<"exit">>
        /\ use["Zfs"] = 0
        /\ use["Luks"] = 0
        /\ files["Modules"] = settings.modules_files

\* C1 amended: a name sequence that contains an unrecognized name never
\* completes selection: the loop ends the process at the first name that is
\* "exit" (status 0) or unrecognized (status 1); var.features is left as given,
\* and the recognized names before that name have taken effect (each "zfs"
\* enabled Zfs and appended "zfs" to Modules, each "luks" enabled Luks), the
\* names after it have not.
C1_StopsAtFirstBadName ==
    (FromArguments /\ SelectionOver /\ ~Recognized(args_features)) =>
        LET k == FirstStop(args_features)
            nz == Occurrences(args_features, k - 1, "zfs")
            nl == Occurrences(args_features, k - 1, "luks")
        IN /\ pc = "exited"
           /\ exit_code = IF args_features[k] = "exit" THEN 0 ELSE 1
           /\ features = args_features
           /\ use["Zfs"] = Flag(nz > 0)
           /\ use["Luks"] = Flag(nl > 0)
           /\ files["Modules"] = settings.modules_files \o Repeat("zfs", nz)

C1_Witness ==
    /\ args_features = <<"zfs", "bogus">>
    /\ SelectionOver
    /\ exit_code = 1
    /\ use["Zfs"] = 1
    /\ files["Modules"] = Append(settings.modules_files, "zfs")

\* C2: for a list of numeric codes typed at the menu, the converted list is
\* exactly ["exit"] when some code is outside {1,2,3}, wherever it stands, and
\* otherwise the list of the mapped names, same length and order.
C2_ConvertNumbered ==
    (FromMenu /\ SelectionOver /\ OnlyFrom(answer, NumericTokens)) =>
        features = IF OnlyFrom(answer, CodeTokens) THEN NamesOfCodes(answer)
                   ELSE <<"exit">>

C2_Witness ==
    /\ FromMenu
    /\ SelectionOver
    /\ answer = <<"1", "2", "4">>
    /\ features = <<"exit">>

\* An invalid menu input: a typed code outside {1,2,3}, or an unrecognized name
\* reached by the loop
InvalidMenuInput ==
    \/ FromMenu /\ \E k \in 1..Len(answer) : answer[k] \notin CodeTokens
    \/ FromArguments /\ args_features[FirstStop(args_features \o <<"exit">>)] \notin FeatureNames

\* C3 as claimed: at feature selection, invalid menu input ends the run with
\* status 1, status 0 is reached only when the user asked for "exit", and no
\* build root is left in either case.
C3_AsClaimed ==
    (SelectionOver /\ pc = "exited") =>
        /\ InvalidMenuInput => exit_code = 1
        /\ exit_code = 0 =>
              FromArguments /\ \E k \in 1..Len(args_features) : args_features[k] = "exit"
        /\ root = EmptyFs

\* C4 as claimed: codes in {1,2,3} passed through --features leave the hooks
\* and the manifests as the corresponding names passed through --features do.
C4_AsClaimed ==
    (FromArguments /\ SelectionOver /\ OnlyFrom(args_features, CodeTokens)) =>
        LET n == NamesRun(NamesOfCodes(args_features))
        IN use = n.use /\ files = n.files

\* C4 amended: numeric codes are translated at the interactive menu only.
\* Codes in {1,2,3} typed at the menu leave the hooks, the manifests and the
\* exit status as the corresponding names passed through --features do; codes
\* passed through --features are unrecognized names: status 1, nothing enabled.
C4_CodesAtMenuOnly ==
    /\ (FromMenu /\ SelectionOver /\ OnlyFrom(answer, CodeTokens)) =>
          LET n == NamesRun(NamesOfCodes(answer))
          IN /\ use = n.use
             /\ files = n.files
             /\ exit_code = n.exit_code
             /\ pc = "selected"
    /\ (FromArguments /\ SelectionOver /\ OnlyFrom(args_features, CodeTokens)) =>
          /\ exit_code = 1
          /\ use["Zfs"] = 0
          /\ use["Luks"] = 0
          /\ files = ConfiguredFiles(settings)

C4_Witness ==
    /\ FromMenu
    /\ answer = <<"1", "2">>
    /\ pc = "selected"
    /\ use["Zfs"] = 1
    /\ use["Luks"] = 1
    /\ files["Modules"] = Append(settings.modules_files, "zfs")

\* C5 as claimed: a valid selection that contains "zfs" enables Zfs and adds
\* exactly one "zfs" to Modules however often "zfs" occurs; no other manifest
\* changes, and a selection without "zfs" changes no manifest.
C5_AsClaimed ==
    pc = "selected" =>
        /\ files["Modules"] =
              IF \E k \in 1..Len(features) : features[k] = "zfs"
              THEN Append(settings.modules_files, "zfs")
              ELSE settings.modules_files
        /\ (\E k \in 1..Len(features) : features[k] = "zfs") => use["Zfs"] = 1
        /\ \A h \in Hooks \ {"Modules"} : files[h] = ConfiguredFiles(settings)[h]

\* C5 amended: a valid selection that contains "zfs" enables Zfs and appends
\* one "zfs" to the configured Modules manifest for each occurrence of "zfs" in
\* the selection (exactly one when it occurs once); no other manifest changes,
\* and a selection without "zfs" changes no manifest.
C5_ZfsPerOccurrence ==
    pc = "selected" =>
        LET nz == Occurrences(features, Len(features), "zfs")
        IN /\ files["Modules"] = settings.modules_files \o Repeat("zfs", nz)
           /\ use["Zfs"] = Flag(nz > 0)
           /\ \A h \in Hooks \ {"Modules"} : files[h] = ConfiguredFiles(settings)[h]

C5_Witness ==
    /\ pc = "selected"
    /\ features = <<"zfs", "luks", "zfs">>
    /\ use["Zfs"] = 1
    /\ files["Modules"] = settings.modules_files \o <<"zfs", "zfs">>


----------------------------------------------------------------------------
(* The build: claims C6 to C10, checked under SpecBuild                     *)

\* The trace holds the operation op on arg
InLog(op, arg) == \E k \in 1..Len(log) : log[k].op = op /\ arg \in log[k].args

\* The arguments of every op of the trace
LogArgs(op) == UNION {log[k].args : k \in {j \in 1..Len(log) : log[j].op = op}}

Elements(seq) == {seq[k] : k \in 1..Len(seq)}

\* Core.CopyDependencies was entered
DependenciesStarted == InLog("Info", <<"Copying library dependencies ...">>)

NoLibcFound == InLog("Fail", <<"No libc interpreters were found!">>)

\* The candidate patterns whose target is on the host
HostLoaders == {l \in Loaders : isfile(host, l)}

\* What ldd reports for the members of Core._binset
Reported == UNION {Elements(lddout[b]) : b \in binset}

BasicOnly == args_features = <<"basic">> /\ settings.modules_files = <<>>

\* C6: with features = ["basic"] and no configured module, Base and Modules are
\* enabled and Zfs and Luks are not; CopyBinaries classifies and copies Base's
\* required files and nothing else; CopyModules looks for no module, has an
\* empty closure, copies no module and does not run depmod on the build root.
C6_BasicBuild ==
    BasicOnly =>
        /\ use["Base"] = 1 /\ use["Modules"] = 1
        /\ use["Zfs"] = 0 /\ use["Luks"] = 0
        /\ pc = "binaries" =>
              /\ LogArgs("file") = Elements(settings.base_files)
              /\ LogArgs("Copy") = Elements(settings.base_files)
              /\ binset \subseteq Elements(settings.base_files)
              /\ \A f \in Elements(settings.base_files) : root[f] = host[f]
              /\ \A f \in HostFiles \ Elements(settings.base_files) : ~exists(root, f)
        /\ pc = "modules" =>
              /\ LogArgs("find") = {}
              /\ LogArgs("modprobe") = {}
              /\ LogArgs("depmod -b") = {}
              /\ modset = {}
              /\ moddeps = {}
              /\ \A f \in ModuleFiles \cup {modules_order, modules_builtin} : ~exists(root, f)

C6_Witness ==
    /\ BasicOnly
    /\ pc = "modules"
    /\ binset = {busybox, bash}
    /\ InLog("depmod", <<"k">>)
    /\ moddeps = {}

C8_LoaderInSetAndRoot ==
    pc = "deps" =>
        /\ \E l \in HostLoaders : l \in bindeps /\ root[l] = host[l]
        /\ \A l \in HostLoaders : l \in bindeps /\ root[l] = host[l]
        /\ \A d \in bindeps : isfile(root, d) /\ root[d] = host[d]

C8_Witness ==
    /\ pc = "deps"
    /\ binset = {}
    /\ bindeps = {ld_musl}
    /\ isfile(root, ld_musl)

\* C9: when no candidate pattern has a target on the host, CopyDependencies
\* ends in Tools.Fail right after it was entered: no ldd query and no copy of
\* a library comes before, the build root is gone and the exit status is 1.
C9_NoLibcAborts ==
    (DependenciesStarted /\ HostLoaders = {}) =>
        /\ pc = "exited"
        /\ exit_code = 1
        /\ root = EmptyFs
        /\ Len(log) >= 2
        /\ log[Len(log)] = [op |-> "Fail", args |-> {<<"No libc interpreters were found!">>}]
        /\ log[Len(log) - 1] = [op |-> "Info", args |-> {<<"Copying library dependencies ...">>}]
        /\ LogArgs("ldd") = {}
        /\ LogArgs("Copy") \cap (Libraries \cup Loaders) = {}
        /\ bindeps = {}

C9_Witness ==
    /\ DependenciesStarted
    /\ HostLoaders = {}
    /\ binset = {busybox, bash, cryptsetup}
    /\ NoLibcFound
    /\ root = EmptyFs
    /\ exit_code = 1

----------------------------------------------------------------------------
(* Modules and required files: claims C11, C16, C17, checked under SpecBuild *)

\* Core.CopyModules has asked modprobe for the dependencies of its modules
ModulesQueried == LogArgs("modprobe") # {}

\* What modprobe --show-depends prints for the members of Core._modset
ModprobeReported == UNION {Elements(kmods.depends[ModuleNameOf(f)]) : f \in modset}

\* C11 as claimed: the closure CopyModules computes is exactly the union of the
\* names modprobe prints for the resolved modules, whatever the order of the
\* requested names, and a module for which modprobe prints nothing adds no
\* element, in particular not the empty name.
C11_AsClaimed ==
    ModulesQueried =>
        /\ moddeps = ModprobeReported
        /\ <<>> \notin moddeps


\* Core.VerifyBinaries was entered
VerificationStarted == InLog("Info", <<"Checking required files ...">>)

\* The files Core.VerifyBinaries looks for: those of Base, and those of Luks
\* and Zfs when enabled
RequiredFiles ==
    Elements(files["Base"])
        \cup (IF use["Luks"] # 0 THEN Elements(files["Luks"]) ELSE {})
        \cup (IF use["Zfs"] # 0 THEN Elements(files["Zfs"]) ELSE {})

RequiredMissing == {f \in RequiredFiles : ~exists(host, f)}

ModulesStarted == InLog("Info", <<"Copying modules ...">>)

\* The requested names for which find prints no <name>.ko
MissingModules ==
    {n \in Elements(files["Modules"]) : n \notin ModuleNames \/ ~isfile(host, kmods.ko[n])}

\* C17: when a requested module has no <name>.ko under var.modules, the build
\* ends in CopyModules with "Module: <name> doesn't exist. Exiting." for such a
\* name: status 1, var.temp deleted, no module file was copied, and neither
\* depmod nor modprobe was run.
C17_MissingModuleAborts ==
    (ModulesStarted /\ MissingModules # {}) =>
        /\ pc = "exited" /\ exit_code = 1 /\ exc = "none"
        /\ root = EmptyFs
        /\ LogArgs("Copy") \cap ModuleFiles = {}
        /\ LogArgs("depmod") = {} /\ LogArgs("modprobe") = {} /\ LogArgs("depmod -b") = {}
        /\ \E n \in MissingModules :
              log[Len(log)] =
                  [op |-> "Fail", args |-> {<<"Module:", n, "doesn't exist. Exiting.">>}]

C17_Witness ==
    /\ ModulesStarted
    /\ MissingModules = {"zfs"}
    /\ modset = {nvme_ko}
    /\ exit_code = 1
    /\ root = EmptyFs


----------------------------------------------------------------------------
(* Tools.Copy and Tools.SafeCopy: claims C12, C13, C15, C20, checked under   *)
(* SpecCopy                                                                  *)

\* The destination of the last call, relative to var.temp
CallPath ==
    IF call.op = "SafeCopy"
    THEN Append(call.dir, IF call.name = None THEN call.src[Len(call.src)] ELSE call.name[1])
    ELSE call.dir \o call.src

\* The last call returned to its caller
Returned == pc = "copy" /\ exit_code = -1 /\ exc = "none"

\* The last call ended in Tools.Fail with this message
FailedWith(vMessage) ==
    /\ exit_code = 1
    /\ exc = "none"
    /\ root = EmptyFs
    /\ log # <<>>
    /\ log[Len(log)] = [op |-> "Fail", args |-> {vMessage}]

\* The last entry of the trace is this warning
WarnedLast(vMessage) ==
    /\ log # <<>>
    /\ log[Len(log)].op = "Warn"
    /\ vMessage \in log[Len(log)].args

\* C12: Tools.Copy called again with the same arguments, the source being what
\* it was, leaves var.temp as the call before left it; and when the source is
\* a regular file whose content was replaced between the two calls, the
\* destination, a regular file, holds the new content after the second call.
C12_CopyTwice ==
    (call.op = "Copy" /\ call.same /\ Returned) =>
        /\ call.srcwas = call.srcnow => root = call.rootwas
        /\ (call.srcnow \in FileKinds /\ isfile(call.rootwas, CallPath)) =>
              /\ root[CallPath] = call.srcnow
              /\ \A q \in Paths \ {CallPath} : root[q] = call.rootwas[q]

C12_Witness ==
    /\ call.op = "Copy" /\ call.same /\ Returned
    /\ call.srcwas = "data" /\ call.srcnow = "script"
    /\ call.rootwas[CallPath] = "data"
    /\ root[CallPath] = "script"

\* C13 as claimed: a Tools.Copy call with dontFail never ends the build: whatever
\* is at the source (a file, nothing, a directory) and at the destination, the
\* call returns to its caller, and a destination that is no regular file
\* afterwards is reported by a warning only.
C13_AsClaimed ==
    (call.op = "Copy" /\ call.dontFail) =>
        /\ Returned
        /\ ~isfile(root, CallPath) => WarnedLast(<<"Unable to copy">> \o CallPath)

\* The last call ended in Tools.Fail
FailedLast ==
    /\ exit_code = 1
    /\ exc = "none"
    /\ root = EmptyFs
    /\ log # <<>>
    /\ log[Len(log)].op = "Fail"

\* C15 as claimed: every Tools.SafeCopy call either returns with a regular file
\* at targetDest/<name> or ends in Tools.Fail, var.temp deleted and status 1;
\* a call whose source is missing always ends in Tools.Fail.
C15_AsClaimed ==
    call.op = "SafeCopy" =>
        /\ (Returned /\ isfile(root, CallPath)) \/ FailedLast
        /\ call.srcnow = "none" => FailedLast

DirectoryCopied ==
    /\ call.op = "Copy"
    /\ call.srcnow = "dir"
    /\ ~exists(call.rootwas, CallPath)

\* C21 as claimed: Tools.Copy of a directory to a destination that is not
\* there creates the directory at the destination and nothing below it, and
\* returns to its caller, also when dontFail is not given.
C21_AsClaimed ==
    DirectoryCopied =>
        /\ Returned
        /\ isdir(root, CallPath)
        /\ \A q \in Paths : (IsUnder(q, CallPath) /\ q # CallPath) => ~exists(root, q)

----------------------------------------------------------------------------
(* The build to its end: claims C14, C18, C19, checked under SpecFinish      *)

\* Core.CopyFirmware is the last stage that ran, copying the listed files and
\* directories from the firmware directory of the host
FirmwareListsCopied ==
    /\ InLog("Info", <<"Copying firmware...">>)
    /\ ~InLog("Info", <<"Creating symlinks ...">>)
    /\ settings.firmware_copy_all = 0
    /\ isdir(host, firmwareDirectory)

\* The firmware files and directories of the settings
ConfiguredFirmware ==
    Elements(settings.firmware_files) \cup Elements(settings.firmware_directories)

\* C14 as claimed: with the firmware hook enabled, copy-all off and the firmware
\* directory on the host, a listed firmware file or directory that the host
\* lacks does not end the build: it is warned about and left out, and every
\* other listed file and directory, also one listed after it, is under
\* var.temp when CopyFirmware is done.
C14_AsClaimed ==
    FirmwareListsCopied =>
        /\ exit_code = -1 /\ exc = "none"
        /\ \A fw \in ConfiguredFirmware :
              IF exists(host, firmwareDirectory \o fw)
              THEN root[firmwareDirectory \o fw] = host[firmwareDirectory \o fw]
              ELSE /\ ~exists(root, firmwareDirectory \o fw)
                   /\ \E k \in 1..Len(log) : log[k].op = "Warn"

\* Core.CreateBaselayout has run: var.temp was created
LayoutCreated == InLog("Info", <<"Creating temporary directory at">>)

\* C18 as claimed: a run that ends after var.temp was created either completed
\* (Tools.CleanAndExit, status 0) or ended in Tools.Fail with a status that is
\* not 0, and in both cases var.temp is gone: no run ends with a stage that did
\* not complete and var.temp still on disk.
C18_AsClaimed ==
    (pc = "exited" /\ LayoutCreated) =>
        /\ root = EmptyFs
        /\ exc = "none"
        /\ exit_code = 0 \/ (exit_code # 0 /\ log[Len(log)].op = "Fail")

\* What the packaging command did, as Core.CreateInitramfs ran it
PackagingRan == LogArgs("cpio")

----------------------------------------------------------------------------
(* The order of the module stage: claim C23, checked under SpecBuild        *)

\* The place of a trace entry in the module stage: locating, refreshing the
\* index of the host, querying, copying the closure, copying modules.order
\* and modules.builtin, regenerating the index under var.temp, failing
StageRank(e) ==
    CASE e.op = "find" -> 1
      [] e.op = "depmod" -> 2
      [] e.op = "modprobe" -> 3
      [] e.op = "Copy" /\ e.args \cap {modules_order, modules_builtin} = {} -> 4
      [] e.op = "Info" -> 5
      [] e.op = "Copy" -> 6
      [] e.op = "depmod -b" -> 7
      [] OTHER -> 8

\* The trace entries of Core.CopyModules: those after "Copying modules ..."
ModuleStage ==
    {k \in 1..Len(log) :
        \E j \in 1..(k - 1) : log[j].op = "Info" /\ <<"Copying modules ...">> \in log[j].args}

\* C23: Core.CopyModules locates every requested module, then refreshes the
\* index of the host (a result that is not 0 ends the build in Tools.Fail),
\* then asks modprobe, then copies the closure; when the closure is not empty
\* modules.order and modules.builtin are copied next and only then depmod -b
\* runs on var.temp, every member of the closure being copied by then, and a
\* result of depmod -b that is not 0 ends the build in Tools.Fail.
C23_ModuleStageOrder ==
    ModulesStarted =>
        /\ \A i \in ModuleStage : \A j \in ModuleStage :
              i < j => StageRank(log[i]) < StageRank(log[j])
        /\ InLog("depmod", <<"k">>) =>
              /\ LogArgs("find") = {<<n>> : n \in Elements(files["Modules"])}
              /\ modset = {kmods.ko[n] : n \in Elements(files["Modules"])}
              /\ kmods.depmod # 0 =>
                    FailedWith(<<"Error updating module dependency database!">>)
        /\ ModulesQueried => LogArgs("modprobe") = {<<ModuleNameOf(f)>> : f \in modset}
        /\ InLog("depmod -b", <<"k">>) =>
              /\ \E k \in ModuleStage : log[k] = [op |-> "Copy", args |-> moddeps]
              /\ \E k \in ModuleStage :
                    log[k] = [op |-> "Copy", args |-> {modules_order, modules_builtin}]
              /\ IF kmods.depmod_b # 0
                 THEN FailedWith(<<"Depmod was unable to refresh the dependency information for your initramfs!">>)
                 ELSE /\ pc = "modules"
                      /\ \A f \in moddeps \cup {modules_order, modules_builtin} :
                            isfile(root, f)
        /\ (pc = "modules" /\ moddeps # {}) => InLog("depmod -b", <<"k">>)

C23_Witness ==
    /\ pc = "modules"
    /\ modset = {nvme_ko}
    /\ moddeps = {nvme_core_ko, nvme_ko}
    /\ InLog("depmod -b", <<"k">>)
    /\ isfile(root, nvme_ko) /\ isfile(root, modules_order)

-----------------------------------------------------------------------------
(* Processes started one after the other in the same directory              *)

\* Tools.Clean as the first step of a run, before anything is built
CleanOnStart ==
    /\ pc = "fresh"
    /\ Becomes(Clean(Cur), "start")
    /\ UNCHANGED <<env, answer, call, initrd>>

\* The process is killed while it builds (SIGKILL, power loss): no handler runs
\* and what it made under var.temp stays on disk.
Interrupted ==
    /\ pc \notin {"fresh", "exited"}
    /\ exists(root, <<>>)
    /\ pc' = "exited"
    /\ exit_code' = 137
    /\ UNCHANGED <<env, answer, call, initrd, features, use, files, root, binset,
                   bindeps, modset, moddeps, log, exc>>

\* The next process is started in var.home: Variables.py draws rstring anew, so
\* var.temp is another directory unless the same number comes up again, and the
\* class bodies of Hook and Core run again.
NextRun ==
    /\ pc = "exited"
    /\ runs < MaxRuns
    /\ LET dirs == [r \in RStrings |-> IF r = rstring THEN root ELSE home[r]] IN
       \E r \in RStrings :
          /\ rstring' = r
          /\ root' = dirs[r]
          /\ home' = [dirs EXCEPT ![r] = EmptyFs]
    /\ runs' = runs + 1
    /\ answer' = None
    /\ features' = EmptyString
    /\ use' = [h \in Hooks |-> IF h \in {"Base", "Modules"} THEN 1 ELSE 0]
    /\ files' = [h \in Hooks |-> <<>>]
    /\ binset' = {}
    /\ bindeps' = {}
    /\ modset' = {}
    /\ moddeps' = {}
    /\ log' = <<>>
    /\ exc' = "none"
    /\ exit_code' = -1
    /\ pc' = "fresh"
    /\ UNCHANGED <<user, args_features, settings, host, lddout, kmods, call, initrd>>

InitRuns ==
    /\ user = "root"
    /\ args_features \in {<<"basic">>, <<"zfs">>}
    /\ settings \in {s \in SettingsChoices :
                        /\ s.firmware_use = 0 /\ s.zfs_use_man = 1
                        /\ s.modules_files = <<"nvme">>}
    /\ host \in {h \in BuildHosts : h[bash] = "dynamic" /\ h[busybox] \in {"dynamic", "none"}
                                    /\ h[zed] = "script" /\ h[ld_musl] = "none"}
    /\ lddout = LddOf(<<libc>>)
    /\ kmods = FullModules
    /\ answer = None
    /\ features = EmptyString
    /\ use = [h \in Hooks |-> IF h \in {"Base", "Modules"} THEN 1 ELSE 0]
    /\ files = [h \in Hooks |-> <<>>]
    /\ root = EmptyFs
    /\ binset = {}
    /\ bindeps = {}
    /\ modset = {}
    /\ moddeps = {}
    /\ log = <<>>
    /\ exc = "none"
    /\ exit_code = -1
    /\ pc = "fresh"
    /\ call = NoCall
    /\ initrd = "none"
    /\ FirstRun

NextRuns ==
    \/ CleanOnStart
    \/ NextBuild
    \/ Interrupted
    \/ NextRun

SpecRuns == InitRuns /\ [][NextRuns]_vars

\* C24: while a run that is not the first one builds, no build root of an earlier
\* run is left in the directory: the cleanup at the start has removed it.
C24_AsClaimed ==
    (runs > 1 /\ pc \notin {"fresh", "exited"}) =>
        \A r \in RStrings : ~exists(home[r], <<>>)

=============================================================================
